---- MODULE Spec2Model ----
(***************************************************************************)
(* A model of mojang-api (src/lib.rs): the "server hash" of the Minecraft  *)
(* login handshake (server_hash, hexdigest) and the two session-server     *)
(* requests that carry it (server_auth, client_auth).                      *)
(*                                                                         *)
(* Bytes are the integers 0..255.  A String that is formatted or hashed   *)
(* is a sequence of one-character strings.  A 32-bit word of SHA-1 is a pair <<hi, lo>> of  *)
(* 16-bit halves, so that no intermediate value leaves TLC's integers.     *)
(***************************************************************************)
EXTENDS Integers, Sequences, FiniteSets, TLC

(***************************************************************************)
(* sha1::Sha1 (FIPS 180-1), as used by server_hash and hexdigest.          *)
(***************************************************************************)
Half == 65536

RECURSIVE AndBits(_, _)
AndBits(a, b) ==
    IF a = 0 \/ b = 0 THEN 0
    ELSE ((a % 2) * (b % 2)) + 2 * AndBits(a \div 2, b \div 2)

RECURSIVE XorBits(_, _)
XorBits(a, b) ==
    IF a = 0 THEN b
    ELSE IF b = 0 THEN a
    ELSE ((a + b) % 2) + 2 * XorBits(a \div 2, b \div 2)

\* the bitwise operations on 16-bit halves, a nibble at a time
AndNib == [a \in 0..15 |-> [b \in 0..15 |-> AndBits(a, b)]]
XorNib == [a \in 0..15 |-> [b \in 0..15 |-> XorBits(a, b)]]

RECURSIVE And16(_, _)
And16(a, b) ==
    IF a = 0 \/ b = 0 THEN 0
    ELSE AndNib[a % 16][b % 16] + 16 * And16(a \div 16, b \div 16)

RECURSIVE Xor16(_, _)
Xor16(a, b) ==
    IF a = 0 THEN b
    ELSE IF b = 0 THEN a
    ELSE XorNib[a % 16][b % 16] + 16 * Xor16(a \div 16, b \div 16)

Not16(a) == (Half - 1) - a

Or16(a, b) == a + b - And16(a, b)

WAnd(x, y) == <<And16(x[1], y[1]), And16(x[2], y[2])>>
WXor(x, y) == <<Xor16(x[1], y[1]), Xor16(x[2], y[2])>>
WOr(x, y)  == <<Or16(x[1], y[1]), Or16(x[2], y[2])>>
WNot(x)    == <<Not16(x[1]), Not16(x[2])>>

\* wrapping_add on u32
WAdd(x, y) ==
    LET lo == x[2] + y[2]
        hi == x[1] + y[1] + (lo \div Half)
    IN  <<hi % Half, lo % Half>>

Pow2(n) == 2 ^ n

\* rotate_left by n, 0 < n < 16
RotlSmall(x, n) ==
    <<((x[1] * Pow2(n)) % Half) + (x[2] \div Pow2(16 - n)),
      ((x[2] * Pow2(n)) % Half) + (x[1] \div Pow2(16 - n))>>

\* rotate_left by n, 0 < n < 32, n # 16
Rotl(x, n) == IF n < 16 THEN RotlSmall(x, n) ELSE RotlSmall(<<x[2], x[1]>>, n - 16)

Sha1H0 ==
    <<  <<26437, 8961>>,    \* 0x67452301
        <<61389, 43913>>,   \* 0xEFCDAB89
        <<39098, 56574>>,   \* 0x98BADCFE
        <<4146, 21622>>,    \* 0x10325476
        <<50130, 57840>> >> \* 0xC3D2E1F0

\* faulty variant: the first round constant used in every round
Sha1KFirst(t) == <<23170, 31129>>

Sha1K(t) ==
    IF t < 20 THEN <<23170, 31129>>        \* 0x5A827999
    ELSE IF t < 40 THEN <<28377, 60321>>   \* 0x6ED9EBA1
    ELSE IF t < 60 THEN <<36635, 48348>>   \* 0x8F1BBCDC
    ELSE <<51810, 49622>>                  \* 0xCA62C1D6

Sha1F(t, b, c, d) ==
    IF t < 20 THEN WOr(WAnd(b, c), WAnd(WNot(b), d))
    ELSE IF t < 40 THEN WXor(WXor(b, c), d)
    ELSE IF t < 60 THEN WOr(WOr(WAnd(b, c), WAnd(b, d)), WAnd(c, d))
    ELSE WXor(WXor(b, c), d)

\* message padding: 0x80, zeros up to 56 mod 64, the bit length as a u64
RECURSIVE Zeros(_)
Zeros(n) == IF n = 0 THEN <<>> ELSE <<0>> \o Zeros(n - 1)

Sha1Pad(msg) ==
    LET n    == Len(msg)
        bits == 8 * n
        z    == (119 - (n % 64)) % 64
    IN  msg \o <<128>> \o Zeros(z) \o Zeros(4) \o
        << (bits \div 16777216) % 256, (bits \div 65536) % 256,
           (bits \div 256) % 256, bits % 256 >>

\* the 16 big-endian words of the block that starts at byte off + 1
BlockWords(m, off) ==
    [i \in 1..16 |->
        << (m[off + 4 * i - 3] * 256) + m[off + 4 * i - 2],
           (m[off + 4 * i - 1] * 256) + m[off + 4 * i] >>]

RECURSIVE Expand(_)
Expand(w) ==
    IF Len(w) = 80 THEN w
    ELSE LET n == Len(w) + 1
             x == WXor(WXor(w[n - 3], w[n - 8]), WXor(w[n - 14], w[n - 16]))
         IN  Expand(Append(w, Rotl(x, 1)))

RECURSIVE Rounds(_, _, _)
Rounds(t, s, w) ==
    IF Len(s) = 5 /\ t = 80 THEN s
    ELSE LET tmp == WAdd(WAdd(WAdd(Rotl(s[1], 5), Sha1F(t, s[2], s[3], s[4])),
                              WAdd(s[5], Sha1K(t))), w[t + 1])
         IN  Rounds(t + 1, <<tmp, s[1], Rotl(s[2], 30), s[3], s[4]>>, w)

Compress(h, m, off) ==
    LET w == Expand(BlockWords(m, off))
        s == Rounds(0, h, w)
    IN  [i \in 1..5 |-> WAdd(h[i], s[i])]

RECURSIVE Blocks(_, _, _)
Blocks(h, m, off) ==
    IF off >= Len(m) THEN h ELSE Blocks(Compress(h, m, off), m, off + 64)

WordBytes(x) == <<x[1] \div 256, x[1] % 256, x[2] \div 256, x[2] % 256>>

\* Sha1::digest().bytes(): the 20 bytes of the digest of everything fed so far
Sha1Digest(msg) ==
    LET h == Blocks(Sha1H0, Sha1Pad(msg), 0)
    IN  WordBytes(h[1]) \o WordBytes(h[2]) \o WordBytes(h[3]) \o
        WordBytes(h[4]) \o WordBytes(h[5])

(***************************************************************************)
(* num_bigint::BigInt as hexdigest uses it.  A BigInt is a sign and a      *)
(* magnitude; the magnitude (BigUint) is a little-endian sequence of       *)
(* base-256 digits without high zero digits.                               *)
(***************************************************************************)
HexChars == <<"0", "1", "2", "3", "4", "5", "6", "7",
              "8", "9", "a", "b", "c", "d", "e", "f">>

Reverse(s) == [i \in 1..Len(s) |-> s[Len(s) + 1 - i]]

\* BigUint::normalize: drop the high zero digits
Normalize(le) ==
    LET nonzero == {i \in 1..Len(le) : le[i] # 0}
    IN  IF nonzero = {} THEN <<>>
        ELSE SubSeq(le, 1, CHOOSE i \in nonzero : \A j \in nonzero : j <= i)

\* BigUint::from_bytes_be
FromBytesBe(bytes) == Normalize(Reverse(bytes))

\* faulty variant: the one's complement: the final "+ 1" forgotten
NegateLeOnesComplement(le) == [i \in 1..Len(le) |-> 255 - le[i]]

\* 2^(8 * Len(le)) - le for le # 0, the magnitude of a negative
\* two's-complement value: the subtraction borrows at every digit above the
\* lowest non-zero one
NegateLe(le) ==
    [i \in 1..Len(le) |->
        IF \A j \in 1..(i - 1) : le[j] = 0 THEN (256 - le[i]) % 256 ELSE 255 - le[i]]

\* faulty variant: the bytes read as unsigned: a plain hex digest
FromUnsignedBytesBe(bytes) ==
    LET mag == FromBytesBe(bytes)
    IN  [sign |-> IF mag = <<>> THEN "NoSign" ELSE "Plus", data |-> mag]

\* BigInt::from_signed_bytes_be: the two's-complement value of big-endian bytes
FromSignedBytesBe(bytes) ==
    IF bytes = <<>> THEN [sign |-> "NoSign", data |-> <<>>]
    ELSE IF bytes[1] > 127
         THEN [sign |-> "Minus", data |-> Normalize(NegateLe(Reverse(bytes)))]
         ELSE LET mag == FromBytesBe(bytes)
              IN  [sign |-> IF mag = <<>> THEN "NoSign" ELSE "Plus", data |-> mag]

\* faulty variant: the nibbles of a byte in the wrong order
NibblesLeSwapped(le) ==
    [i \in 1..(2 * Len(le)) |->
        IF i % 2 = 1 THEN le[(i + 1) \div 2] \div 16 ELSE le[i \div 2] % 16]

\* the base-16 digits of a magnitude, least significant first
NibblesLe(le) ==
    [i \in 1..(2 * Len(le)) |->
        IF i % 2 = 1 THEN le[(i + 1) \div 2] % 16 ELSE le[i \div 2] \div 16]

\* faulty variant: two digits for every byte: the leading zero nibble kept
ToStrRadix16Padded(mag) ==
    IF mag = <<>> THEN <<"0">>
    ELSE LET nib == Reverse(NibblesLe(mag))
         IN  [i \in 1..Len(nib) |-> HexChars[nib[i] + 1]]

\* BigUint::to_str_radix(16)
ToStrRadix16(mag) ==
    IF mag = <<>> THEN <<"0">>
    ELSE LET nib == Reverse(Normalize(NibblesLe(mag)))
         IN  [i \in 1..Len(nib) |-> HexChars[nib[i] + 1]]

\* format!("{:x}", bigint): LowerHex of a BigInt
LowerHex(big) ==
    (IF big.sign = "Minus" THEN <<"-">> ELSE <<>>) \o ToStrRadix16(big.data)

\* hexdigest, lines 231-232, on the digest bytes
FormatSignedHex(digest) == LowerHex(FromSignedBytesBe(digest))

(***************************************************************************)
(* State.                                                                  *)
(***************************************************************************)
VARIABLES
    output,     \* hexdigest: the digest bytes (line 229)
    formatted,  \* hexdigest: the returned String
    hexDone,    \* hexdigest has returned
    pc,         \* per caller: where it is in server_hash or test_hexdigest
    call,       \* per caller: the function it is in and its arguments
    hasher,     \* per hasher: the inputs fed to the Sha1 so far, in order
    result,     \* per caller: the String returned
    apc,        \* server_auth / client_auth: where the async fn is
    acall,      \* server_auth / client_auth: the function and its arguments
    net,        \* the requests the call has sent, in order
    exchange,   \* what the network has done for the call so far
    string,     \* server_auth: the response body read (line 176)
    aresult     \* server_auth / client_auth: the Result returned

hexVars == <<output, formatted, hexDone>>
hashVars == <<pc, call, hasher, result>>
authVars == <<apc, acall, net, exchange, string, aresult>>
vars == <<hexVars, hashVars, authVars>>

(***************************************************************************)
(* hexdigest on digests drawn from the 20-byte sequences: the first        *)
(* HeadLen and the last TailLen bytes range over EdgeBytes, the bytes      *)
(* between are all 0x00 or all 0xff.                                       *)
(***************************************************************************)
DigestLen == 20
HeadLen == 2
TailLen == 1
EdgeBytes == {0, 1, 15, 16, 127, 128, 255}
Fills == {0, 255}

DigestSamples ==
    { h \o [i \in 1..(DigestLen - HeadLen - TailLen) |-> f] \o t :
        h \in [1..HeadLen -> EdgeBytes], f \in Fills, t \in [1..TailLen -> EdgeBytes] }

HexIdle == output = <<>> /\ formatted = <<>> /\ hexDone = FALSE

\* server_auth / client_auth: no call in progress
NotJson == [t |-> "malformed", v |-> 0]
NoResult == [ok |-> FALSE, error |-> "pending", value |-> <<>>]
NoAuthCall == [fn |-> "none", server_hash |-> <<>>, username |-> "",
               access_token |-> "", uuid |-> 0]
NoExchange == [sent |-> FALSE, status |-> 0, read |-> FALSE]

AuthIdle ==
    /\ apc = "idle"
    /\ acall = NoAuthCall
    /\ net = <<>>
    /\ exchange = NoExchange
    /\ string = NotJson
    /\ aresult = NoResult

(***************************************************************************)
(* server_hash and the hexdigest test, run by NumCallers concurrent        *)
(* callers.                                                                *)
(***************************************************************************)
NumCallers == 2
SecretLen == 16

Callers == 1..NumCallers

\* str::as_bytes on the characters the model's server ids use
AsciiCode(c) ==
    CASE c = "-" -> 45 [] c = "0" -> 48 [] c = "a" -> 97 [] c = "s" -> 115
      [] c = "t" -> 116 [] c = "_" -> 95
AsBytes(str) == [i \in 1..Len(str) |-> AsciiCode(str[i])]

ServerIds == { <<>>, <<"s">> }
Secrets == { [i \in 1..SecretLen |-> 0], [i \in 1..SecretLen |-> i] }
PubKeys == { <<>>, <<1>> }

\* b"Notch", b"jeb_", b"simon" (lines 397, 404, 411)
TestInputs ==
    << <<78, 111, 116, 99, 104>>, <<106, 101, 98, 95>>, <<115, 105, 109, 111, 110>> >>

NoCall == [fn |-> "none", server_id |-> <<>>, shared_secret |-> <<>>,
           pub_key |-> <<>>, vector |-> 0]

RECURSIVE Concat(_)
Concat(chunks) == IF chunks = <<>> THEN <<>> ELSE Head(chunks) \o Concat(Tail(chunks))

\* hasher.digest().bytes() (line 229): the digest of everything fed so far
DigestBytes(h) == Sha1Digest(Concat(h))

\* hexdigest on the messages the callers hash, computed once
HashedMessages ==
    { AsBytes(sid) \o sec \o key : sid \in ServerIds, sec \in Secrets, key \in PubKeys }
        \cup { TestInputs[i] : i \in 1..3 }
HexdigestMemo == [m \in HashedMessages |-> FormatSignedHex(Sha1Digest(m))]

\* hexdigest(&hasher) (lines 228-233)
HexdigestOf(h) ==
    LET msg == Concat(h)
    IN  IF msg \in DOMAIN HexdigestMemo THEN HexdigestMemo[msg]
        ELSE FormatSignedHex(DigestBytes(h))

\* faulty variant: one hasher shared by every caller
SharedHasher(c) == 1

\* `let mut hasher` (line 207, 396): a local of the call
HasherOf(c) == c

\* faulty variant: the secret fed before the server id
ServerHashUpdatesSwapped(cl) == <<cl.shared_secret, AsBytes(cl.server_id), cl.pub_key>>

\* the arguments of the three hasher.update calls (lines 208-210), in order
ServerHashUpdates(cl) == <<AsBytes(cl.server_id), cl.shared_secret, cl.pub_key>>

HashIdle ==
    /\ pc = [c \in Callers |-> "idle"]
    /\ call = [c \in Callers |-> NoCall]
    /\ hasher = [c \in Callers |-> <<>>]
    /\ result = [c \in Callers |-> <<>>]

InitHash == HexIdle /\ HashIdle /\ AuthIdle

\* a call of server_hash begins: Sha1::new() (line 207)
ServerHashNew(c) ==
    /\ pc[c] = "idle"
    /\ \E sid \in ServerIds, sec \in Secrets, key \in PubKeys :
         call' = [call EXCEPT ![c] = [fn |-> "server_hash", server_id |-> sid,
                                      shared_secret |-> sec, pub_key |-> key,
                                      vector |-> 0]]
    /\ hasher' = [hasher EXCEPT ![HasherOf(c)] = <<>>]
    /\ pc' = [pc EXCEPT ![c] = "update_id"]
    /\ result' = [result EXCEPT ![c] = <<>>]
    /\ UNCHANGED <<hexVars, authVars>>

\* hasher.update(server_id.as_bytes()) (line 208)
ServerHashUpdateId(c) ==
    /\ pc[c] = "update_id"
    /\ hasher' = [hasher EXCEPT ![HasherOf(c)] = Append(@, ServerHashUpdates(call[c])[1])]
    /\ pc' = [pc EXCEPT ![c] = "update_secret"]
    /\ UNCHANGED <<call, result, hexVars, authVars>>

\* hasher.update(&shared_secret) (line 209)
ServerHashUpdateSecret(c) ==
    /\ pc[c] = "update_secret"
    /\ hasher' = [hasher EXCEPT ![HasherOf(c)] = Append(@, ServerHashUpdates(call[c])[2])]
    /\ pc' = [pc EXCEPT ![c] = "update_key"]
    /\ UNCHANGED <<call, result, hexVars, authVars>>

\* faulty variant: an update that cannot take an empty slice: the call never returns
ServerHashUpdateKeyNonEmpty(c) ==
    /\ pc[c] = "update_key"
    /\ call[c].pub_key # <<>>
    /\ hasher' = [hasher EXCEPT ![HasherOf(c)] = Append(@, ServerHashUpdates(call[c])[3])]
    /\ pc' = [pc EXCEPT ![c] = "hexdigest"]
    /\ UNCHANGED <<call, result, hexVars, authVars>>

\* hasher.update(pub_key) (line 210)
ServerHashUpdateKey(c) ==
    /\ pc[c] = "update_key"
    /\ hasher' = [hasher EXCEPT ![HasherOf(c)] = Append(@, ServerHashUpdates(call[c])[3])]
    /\ pc' = [pc EXCEPT ![c] = "hexdigest"]
    /\ UNCHANGED <<call, result, hexVars, authVars>>

\* hexdigest(&hasher), the value server_hash returns (line 212)
ServerHashHexdigest(c) ==
    /\ pc[c] = "hexdigest"
    /\ result' = [result EXCEPT ![c] = HexdigestOf(hasher[HasherOf(c)])]
    /\ pc' = [pc EXCEPT ![c] = "done"]
    /\ UNCHANGED <<call, hasher, hexVars, authVars>>

\* one of the three cases of tests::test_hexdigest begins: Sha1::new()
\* (lines 396, 403, 410)
TestNew(c) ==
    /\ pc[c] = "idle"
    /\ \E v \in 1..3 : call' = [call EXCEPT ![c] = [NoCall EXCEPT !.fn = "test_hexdigest",
                                                                  !.vector = v]]
    /\ hasher' = [hasher EXCEPT ![HasherOf(c)] = <<>>]
    /\ pc' = [pc EXCEPT ![c] = "test_update"]
    /\ result' = [result EXCEPT ![c] = <<>>]
    /\ UNCHANGED <<hexVars, authVars>>

\* hasher.update(b"...") (lines 397, 404, 411)
TestUpdate(c) ==
    /\ pc[c] = "test_update"
    /\ hasher' = [hasher EXCEPT ![HasherOf(c)] = Append(@, TestInputs[call[c].vector])]
    /\ pc' = [pc EXCEPT ![c] = "test_hexdigest"]
    /\ UNCHANGED <<call, result, hexVars, authVars>>

\* hexdigest(&hasher) (lines 399, 406, 413)
TestHexdigest(c) ==
    /\ pc[c] = "test_hexdigest"
    /\ result' = [result EXCEPT ![c] = HexdigestOf(hasher[HasherOf(c)])]
    /\ pc' = [pc EXCEPT ![c] = "done"]
    /\ UNCHANGED <<call, hasher, hexVars, authVars>>

\* the caller takes the returned String, the call's locals are dropped, and
\* the caller may call again
Return(c) ==
    /\ pc[c] = "done"
    /\ pc' = [pc EXCEPT ![c] = "idle"]
    /\ call' = [call EXCEPT ![c] = NoCall]
    /\ result' = [result EXCEPT ![c] = <<>>]
    /\ hasher' = [hasher EXCEPT ![HasherOf(c)] = <<>>]
    /\ UNCHANGED <<hexVars, authVars>>

NextHash ==
    \/ \E c \in Callers : ServerHashNew(c)
    \/ \E c \in Callers : ServerHashUpdateId(c)
    \/ \E c \in Callers : ServerHashUpdateSecret(c)
    \/ \E c \in Callers : ServerHashUpdateKey(c)
    \/ \E c \in Callers : ServerHashHexdigest(c)
    \/ \E c \in Callers : TestNew(c)
    \/ \E c \in Callers : TestUpdate(c)
    \/ \E c \in Callers : TestHexdigest(c)
    \/ \E c \in Callers : Return(c)

SpecHash == InitHash /\ [][NextHash]_vars

\* A call that has begun runs on: server_hash and the test are straight-line
\* code.  When a caller calls, and when it calls again, is up to the caller.
InCall(c) == pc[c] \notin {"idle", "done"}

CallBody(c) ==
    \/ ServerHashUpdateId(c)
    \/ ServerHashUpdateSecret(c)
    \/ ServerHashUpdateKey(c)
    \/ ServerHashHexdigest(c)
    \/ TestUpdate(c)
    \/ TestHexdigest(c)

SpecHashFair == SpecHash /\ \A c \in Callers : WF_vars(CallBody(c))

(***************************************************************************)
(* server_auth and client_auth.  The session server and the network are    *)
(* the environment: a send fails or a response with some status arrives,   *)
(* reading the body fails or yields some text.  Usernames, tokens and      *)
(* response texts are opaque here; a response text is given by what a JSON *)
(* parser finds in it.                                                     *)
(***************************************************************************)
Usernames == {"Notch", "test_"}
AccessTokens == {"token_a", "token_b"}
Uuids == {1, 2}
ServerHashes ==
    { <<"4", "e", "d", "1">>, <<"-", "7", "c", "9">> }
Statuses == {200, 204, 403, 500}

\* Uuid as text: the simple and the hyphenated form of the same value
UuidSimple(u) == IF u = 1 THEN "00000000000000000000000000000001"
                 ELSE "00000000000000000000000000000002"
UuidHyphenated(u) == IF u = 1 THEN "00000000-0000-0000-0000-000000000001"
                     ELSE "00000000-0000-0000-0000-000000000002"

\* Uuid's Deserialize: 0 when the text is no UUID
ParseUuid(str) ==
    IF \E u \in Uuids : str \in {UuidSimple(u), UuidHyphenated(u)}
    THEN CHOOSE u \in Uuids : str \in {UuidSimple(u), UuidHyphenated(u)}
    ELSE 0

\* A JSON value: a string, an array, an object (a function from its keys).
JStr(v) == [t |-> "string", v |-> v]
JArr(v) == [t |-> "array", v |-> v]
JObj(v) == [t |-> "object", v |-> v]
JNull == [t |-> "null", v |-> 0]
TexturesProperty ==
    JObj([name |-> JStr("textures"), value |-> JStr("dGVzdA=="),
          signature |-> JStr("c2ln")])
UnsignedProperty ==
    JObj([name |-> JStr("textures"), value |-> JStr("dGVzdA==")])

\* the response texts the session server may send
Bodies ==
    {   \* a profile with a property, as in tests::test_server_auth
        JObj([id |-> JStr(UuidHyphenated(1)), name |-> JStr("test_"),
              properties |-> JArr(<<TexturesProperty>>)]),
        \* a profile as the session server writes it, with two properties
        JObj([id |-> JStr(UuidSimple(2)), name |-> JStr("Notch"),
              properties |-> JArr(<<TexturesProperty, TexturesProperty>>)]),
        \* no properties field
        JObj([id |-> JStr(UuidSimple(1)), name |-> JStr("Notch")]),
        \* an empty properties array, and a field the struct does not have
        JObj([id |-> JStr(UuidSimple(2)), name |-> JStr("test_"),
              properties |-> JArr(<<>>), legacy |-> JStr("true")]),
        \* an empty body (the session server's answer to a failed hasJoined)
        NotJson,
        \* an error object
        JObj([error |-> JStr("ForbiddenOperationException"),
              errorMessage |-> JStr("Invalid token")]),
        \* an id that is no UUID
        JObj([id |-> JStr("nobody"), name |-> JStr("Notch")]),
        \* no name
        JObj([id |-> JStr(UuidSimple(1))]),
        \* properties: null
        JObj([id |-> JStr(UuidSimple(1)), name |-> JStr("Notch"),
              properties |-> JNull]),
        \* a property without a signature
        JObj([id |-> JStr(UuidSimple(1)), name |-> JStr("Notch"),
              properties |-> JArr(<<UnsignedProperty>>)]),
        \* a JSON string
        JStr("ok"),
        \* the fields as an array, which the derived Deserialize takes too
        JArr(<<JStr(UuidSimple(2)), JStr("test_")>>),
        \* an array too short
        JArr(<<JStr(UuidSimple(2))>>) }

Ok(v) == [ok |-> TRUE, error |-> "none", value |-> v]
Err(e) == [ok |-> FALSE, error |-> e, value |-> <<>>]
HasString(obj, key) == key \in DOMAIN obj /\ obj[key].t = "string"

\* ProfileProperty's Deserialize (lines 127-135)
DecodeProperty(j) ==
    IF j.t = "object" /\ \A k \in {"name", "value", "signature"} : HasString(j.v, k)
    THEN Ok([name |-> j.v.name.v, value |-> j.v.value.v, signature |-> j.v.signature.v])
    ELSE Err("serde_json")

\* Vec<ProfileProperty>'s Deserialize
DecodeVec(j) ==
    IF j.t # "array" THEN Err("serde_json")
    ELSE LET ps == [i \in 1..Len(j.v) |-> DecodeProperty(j.v[i])]
         IN  IF \E i \in 1..Len(ps) : ~ps[i].ok THEN Err("serde_json")
             ELSE Ok([i \in 1..Len(ps) |-> ps[i].value])

\* faulty variant: properties required: no #[serde(default)]
DecodePropertiesRequired(obj) ==
    IF "properties" \notin DOMAIN obj THEN Err("serde_json")
    ELSE DecodeVec(obj.properties)

\* the properties field (lines 115-116): the empty vector when absent
DecodeProperties(obj) ==
    IF "properties" \notin DOMAIN obj THEN Ok(<<>>)
    ELSE DecodeVec(obj.properties)

\* the derived Deserialize of ServerAuthResponse on a JSON object
VisitMap(obj) ==
    IF ~HasString(obj, "id") \/ ParseUuid(obj.id.v) = 0 THEN Err("serde_json")
    ELSE IF ~HasString(obj, "name") THEN Err("serde_json")
    ELSE IF ~DecodeProperties(obj).ok THEN Err("serde_json")
    ELSE Ok([id |-> ParseUuid(obj.id.v), name |-> obj.name.v,
             properties |-> DecodeProperties(obj).value])

\* the derived Deserialize of ServerAuthResponse on a JSON array: the fields
\* in their order, the last one defaulted when the array ends before it
VisitSeq(arr) ==
    IF Len(arr) < 2 \/ Len(arr) > 3 THEN Err("serde_json")
    ELSE VisitMap(IF Len(arr) = 2
                  THEN [id |-> arr[1], name |-> arr[2]]
                  ELSE [id |-> arr[1], name |-> arr[2], properties |-> arr[3]])

\* serde_json::from_str::<ServerAuthResponse> (lines 108-117, 187)
FromStr(text) ==
    IF text.t = "object" THEN VisitMap(text.v)
    ELSE IF text.t = "array" THEN VisitSeq(text.v)
    ELSE Err("serde_json")

\* the URL of hasJoined (lines 169-172)
HasJoinedUrl(username, hash) ==
    [host |-> "sessionserver.mojang.com", path |-> "/session/minecraft/hasJoined",
     query |-> << <<"username", username>>, <<"serverId", hash>>,
                  <<"unsigned", "false">> >>]

\* the URL of join (line 354)
JoinUrl ==
    [host |-> "sessionserver.mojang.com", path |-> "/session/minecraft/join",
     query |-> <<>>]

\* the payload of join (lines 358-362)
JoinPayload(token, uuid, hash) ==
    [accessToken |-> token, selectedProfile |-> UuidHyphenated(uuid), serverId |-> hash]

InitAuth == HexIdle /\ HashIdle /\ AuthIdle

\* server_auth up to its first await: the GET is sent (lines 167-179)
ServerAuthSend ==
    /\ apc = "idle"
    /\ \E h \in ServerHashes, u \in Usernames :
         /\ acall' = [NoAuthCall EXCEPT !.fn = "server_auth", !.server_hash = h,
                                        !.username = u]
         /\ net' = <<[method |-> "GET", url |-> HasJoinedUrl(u, h), body |-> <<>>]>>
    /\ apc' = "get_sent"
    /\ exchange' = NoExchange
    /\ string' = NotJson
    /\ aresult' = NoResult
    /\ UNCHANGED <<hexVars, hashVars>>

\* send() fails: map_err(Error::Http)? (line 180)
ServerAuthSendFails ==
    /\ apc = "get_sent"
    /\ aresult' = Err("Http")
    /\ apc' = "done"
    /\ UNCHANGED <<acall, net, exchange, string, hexVars, hashVars>>

\* send() yields a response, of whatever status; text() is awaited (line 181)
ServerAuthResponds ==
    /\ apc = "get_sent"
    /\ \E st \in Statuses : exchange' = [exchange EXCEPT !.sent = TRUE, !.status = st]
    /\ apc' = "reading"
    /\ UNCHANGED <<acall, net, string, aresult, hexVars, hashVars>>

\* text() fails: map_err(Error::Http)? (line 183)
ServerAuthTextFails ==
    /\ apc = "reading"
    /\ aresult' = Err("Http")
    /\ apc' = "done"
    /\ UNCHANGED <<acall, net, exchange, string, hexVars, hashVars>>

\* text() yields the body (lines 176-185)
ServerAuthText ==
    /\ apc = "reading"
    /\ \E b \in Bodies : string' = b
    /\ exchange' = [exchange EXCEPT !.read = TRUE]
    /\ apc' = "decode"
    /\ UNCHANGED <<acall, net, aresult, hexVars, hashVars>>

\* serde_json::from_str(&string).map_err(Error::Json)?; Ok(response)
\* (lines 187-189)
ServerAuthDecode ==
    /\ apc = "decode"
    /\ aresult' = IF FromStr(string).ok THEN Ok(FromStr(string).value) ELSE Err("Json")
    /\ apc' = "done"
    /\ UNCHANGED <<acall, net, exchange, string, hexVars, hashVars>>

\* client_auth up to its await: the POST is sent (lines 352-369)
ClientAuthSend ==
    /\ apc = "idle"
    /\ \E t \in AccessTokens, u \in Uuids, h \in ServerHashes :
         /\ acall' = [NoAuthCall EXCEPT !.fn = "client_auth", !.access_token = t,
                                        !.uuid = u, !.server_hash = h]
         /\ net' = <<[method |-> "POST", url |-> JoinUrl, body |-> JoinPayload(t, u, h)]>>
    /\ apc' = "post_sent"
    /\ exchange' = NoExchange
    /\ string' = NotJson
    /\ aresult' = NoResult
    /\ UNCHANGED <<hexVars, hashVars>>

\* send() fails: map_err(Error::Http)? (line 370)
ClientAuthSendFails ==
    /\ apc = "post_sent"
    /\ aresult' = Err("Http")
    /\ apc' = "done"
    /\ UNCHANGED <<acall, net, exchange, string, hexVars, hashVars>>

\* faulty variant: error_for_status: a 4xx or 5xx answer is an error
ClientAuthRespondsChecked ==
    /\ apc = "post_sent"
    /\ \E st \in Statuses :
         /\ exchange' = [exchange EXCEPT !.sent = TRUE, !.status = st]
         /\ aresult' = IF st >= 400 THEN Err("Http") ELSE Ok(<<>>)
    /\ apc' = "done"
    /\ UNCHANGED <<acall, net, string, hexVars, hashVars>>

\* send() yields a response, of whatever status: Ok(()) (lines 370-372)
ClientAuthResponds ==
    /\ apc = "post_sent"
    /\ \E st \in Statuses : exchange' = [exchange EXCEPT !.sent = TRUE, !.status = st]
    /\ aresult' = Ok(<<>>)
    /\ apc' = "done"
    /\ UNCHANGED <<acall, net, string, hexVars, hashVars>>

\* the caller takes the Result; the next call starts afresh
AuthReturn ==
    /\ apc = "done"
    /\ apc' = "idle"
    /\ acall' = NoAuthCall
    /\ net' = <<>>
    /\ exchange' = NoExchange
    /\ string' = NotJson
    /\ aresult' = NoResult
    /\ UNCHANGED <<hexVars, hashVars>>

NextAuth ==
    \/ ServerAuthSend
    \/ ServerAuthSendFails
    \/ ServerAuthResponds
    \/ ServerAuthTextFails
    \/ ServerAuthText
    \/ ServerAuthDecode
    \/ ClientAuthSend
    \/ ClientAuthSendFails
    \/ ClientAuthResponds
    \/ AuthReturn

SpecAuth == InitAuth /\ [][NextAuth]_vars

InitHex ==
    /\ output \in DigestSamples
    /\ formatted = <<>>
    /\ hexDone = FALSE
    /\ HashIdle
    /\ AuthIdle

\* hexdigest, lines 231-233
Hexdigest ==
    /\ ~hexDone
    /\ formatted' = FormatSignedHex(output)
    /\ hexDone' = TRUE
    /\ UNCHANGED <<output, hashVars, authVars>>

NextHex == Hexdigest

SpecHex == InitHex /\ [][NextHex]_vars

(***************************************************************************)
(* Reading a String back as a signed hexadecimal integer, and arithmetic   *)
(* on big-endian base-16 digit sequences, for the statements below.        *)
(***************************************************************************)
HexCharSet == {HexChars[i] : i \in 1..16}
HexVal(c) == CHOOSE v \in 0..15 : HexChars[v + 1] = c

\* optional '-', then one or more hex digits
ParseSignedHex(s) ==
    LET neg  == s # <<>> /\ s[1] = "-"
        body == IF neg THEN Tail(s) ELSE s
        ok   == body # <<>> /\ \A i \in 1..Len(body) : body[i] \in HexCharSet
    IN  [ok |-> ok, neg |-> neg,
         mag |-> IF ok THEN [i \in 1..Len(body) |-> HexVal(body[i])] ELSE <<>>]

\* the 2 * Len(d) base-16 digits of the bytes d read as an unsigned integer
BytesNibbles(d) ==
    [i \in 1..(2 * Len(d)) |->
        IF i % 2 = 1 THEN d[(i + 1) \div 2] \div 16 ELSE d[i \div 2] % 16]

PadLeft(m, n) == [i \in 1..n |-> IF i <= n - Len(m) THEN 0 ELSE m[i - (n - Len(m))]]

IsZero(m) == \A i \in 1..Len(m) : m[i] = 0

\* the carry into position i (from the less significant digits) of a + b
RECURSIVE CarryInto(_, _, _)
CarryInto(a, b, i) ==
    IF i = Len(a) THEN 0
    ELSE (a[i + 1] + b[i + 1] + CarryInto(a, b, i + 1)) \div 16

\* a + b = 16^Len(a), for digit sequences of equal length
SumsToPower(a, b) ==
    /\ CarryInto(a, b, 0) = 1
    /\ \A i \in 1..Len(a) : (a[i] + b[i] + CarryInto(a, b, i)) % 16 = 0

\* the signed integer p (from ParseSignedHex) is the two's-complement value of d
SameSignedValue(p, d) ==
    LET n == 2 * Len(d)
        u == BytesNibbles(d)
        m == PadLeft(p.mag, n)
    IN  /\ p.ok
        /\ Len(p.mag) <= n \/ IsZero(SubSeq(p.mag, 1, Len(p.mag) - n))
        /\ IF d[1] >= 128
           THEN p.neg /\ SumsToPower(m, u)
           ELSE m = u /\ (p.neg => IsZero(m))

\* C1: the String hexdigest returns, read back as a signed hexadecimal integer,
\* is the integer the digest bytes are in big-endian two's complement.
C1_RoundTrip == hexDone => SameSignedValue(ParseSignedHex(formatted), output)

\* the extreme digest 0x80 00 ... 00, of magnitude 2^159
C1_Witness ==
    /\ hexDone
    /\ output[1] = 128 /\ \A i \in 2..Len(output) : output[i] = 0
    /\ Len(formatted) = 2 * DigestLen + 1

\* C2: the output starts with '-' exactly when the top bit of the first
\* digest byte is set.
C2_SignPrefix ==
    hexDone => ((formatted # <<>> /\ formatted[1] = "-") <=> output[1] >= 128)

C2_Witness == hexDone /\ output[1] >= 128 /\ formatted[1] = "-" /\ output[DigestLen] = 0

\* C3: without its optional leading '-', the output is a non-empty string of
\* 0-9a-f with no leading '0' unless it is "0"; it is "0" exactly for the
\* all-zero digest and never "-0".
C3_Digits ==
    hexDone =>
        LET neg  == formatted # <<>> /\ formatted[1] = "-"
            body == IF neg THEN Tail(formatted) ELSE formatted
        IN  /\ body # <<>>
            /\ \A i \in 1..Len(body) : body[i] \in HexCharSet
            /\ body[1] = "0" => formatted = <<"0">>
            /\ formatted = <<"0">> <=> IsZero(output)
            /\ formatted # <<"-", "0">>

\* a digest whose first nibble is zero: 39 digits
C3_Witness ==
    hexDone /\ output[1] \in 1..15 /\ Len(formatted) = 2 * DigestLen - 1

(***************************************************************************)
(* The byte-level routine of the specification (section 9): sign from the  *)
(* top bit, invert and add one with the carry moving up from the last      *)
(* byte, two nibbles per byte, leading zero nibbles stripped.              *)
(***************************************************************************)
\* bytes + 1 modulo 256^Len(bytes), big-endian
RECURSIVE AddOneBe(_)
AddOneBe(bytes) ==
    IF bytes = <<>> THEN <<>>
    ELSE LET n == Len(bytes)
         IN  IF bytes[n] = 255
             THEN AddOneBe(SubSeq(bytes, 1, n - 1)) \o <<0>>
             ELSE SubSeq(bytes, 1, n - 1) \o <<bytes[n] + 1>>

RoutineMagnitude(d) ==
    IF d[1] >= 128 THEN AddOneBe([i \in 1..Len(d) |-> 255 - d[i]]) ELSE d

RECURSIVE StripLeadingZeros(_)
StripLeadingZeros(nib) ==
    IF Len(nib) > 1 /\ nib[1] = 0 THEN StripLeadingZeros(Tail(nib)) ELSE nib

RoutineFormat(d) ==
    LET nib == StripLeadingZeros(BytesNibbles(RoutineMagnitude(d)))
    IN  (IF d[1] >= 128 THEN <<"-">> ELSE <<>>) \o
        [i \in 1..Len(nib) |-> HexChars[nib[i] + 1]]

\* C9: BigInt::from_signed_bytes_be followed by "{:x}" gives, on every digest,
\* the string of the specification's byte-level routine.
C9_RoutineEquivalent == hexDone => formatted = RoutineFormat(output)

\* the digest of all 0xff bytes: "-1"
C9_Witness ==
    hexDone /\ (\A i \in 1..Len(output) : output[i] = 255) /\ formatted = <<"-", "1">>

(***************************************************************************)
(* server_hash and the hexdigest test.                                     *)
(***************************************************************************)
\* the strings tests::test_hexdigest expects (lines 400, 407, 414)
ExpectedHex ==
    << << "4", "e", "d", "1", "f", "4", "6", "b", "b", "e", "0", "4", "b", "c",
         "7", "5", "6", "b", "c", "b", "1", "7", "c", "0", "c", "7", "c", "e",
         "3", "e", "4", "6", "3", "2", "f", "0", "6", "a", "4", "8" >>,
       << "-", "7", "c", "9", "d", "5", "b", "0", "0", "4", "4", "c", "1", "3",
         "0", "1", "0", "9", "a", "5", "d", "7", "b", "5", "f", "b", "5", "c",
         "3", "1", "7", "c", "0", "2", "b", "4", "e", "2", "8", "c", "1" >>,
       << "8", "8", "e", "1", "6", "a", "1", "0", "1", "9", "2", "7", "7", "b",
         "1", "5", "d", "5", "8", "f", "a", "f", "0", "5", "4", "1", "e", "1",
         "1", "9", "1", "0", "e", "b", "7", "5", "6", "f", "6" >> >>

\* C4: hexdigest of the SHA-1 of "Notch", "jeb_" and "simon" is exactly the
\* string the test expects.
C4_TestVectors ==
    \A c \in Callers :
        (pc[c] = "done" /\ call[c].fn = "test_hexdigest")
            => result[c] = ExpectedHex[call[c].vector]

\* "simon": a positive value whose leading zero nibble is dropped
C4_Witness ==
    \E c \in Callers :
        /\ pc[c] = "done" /\ call[c].fn = "test_hexdigest" /\ call[c].vector = 3
        /\ Len(result[c]) = 2 * DigestLen - 1

\* C5: server_hash feeds the hasher the server id bytes, the shared secret and
\* the public key, in this order and nothing else, and returns hexdigest of
\* the SHA-1 of their concatenation.
C5_UpdateOrder ==
    \A c \in Callers :
        (pc[c] = "done" /\ call[c].fn = "server_hash")
            => /\ hasher[c] = <<AsBytes(call[c].server_id), call[c].shared_secret,
                                call[c].pub_key>>
               /\ result[c] = HexdigestOf(<<AsBytes(call[c].server_id)
                      \o call[c].shared_secret \o call[c].pub_key>>)

C5_Witness ==
    \E c \in Callers :
        /\ pc[c] = "done" /\ call[c].fn = "server_hash"
        /\ call[c].server_id # <<>> /\ call[c].pub_key # <<>>
        /\ Len(hasher[c]) = 3

\* C6: two calls of server_hash with equal arguments return equal strings,
\* however the callers' steps interleave and whatever was called before.
C6_Deterministic ==
    \A c1, c2 \in Callers :
        (/\ pc[c1] = "done" /\ pc[c2] = "done"
         /\ call[c1].fn = "server_hash" /\ call[c1] = call[c2])
            => result[c1] = result[c2]

\* server_hash("", [0; 16], &[1]) called twice
C6_Witness ==
    \E c1, c2 \in Callers :
        /\ c1 # c2 /\ pc[c1] = "done" /\ pc[c2] = "done"
        /\ call[c1] = [fn |-> "server_hash", server_id |-> <<>>,
                       shared_secret |-> [i \in 1..SecretLen |-> 0],
                       pub_key |-> <<1>>, vector |-> 0]
        /\ call[c2] = call[c1]
        /\ result[c1] = result[c2] /\ result[c1] # <<>>

IsHexString(str) ==
    LET p == ParseSignedHex(str) IN p.ok

\* C7: every call of server_hash (and of hexdigest) that has begun returns,
\* and what it returns is a String: there is no other outcome.
C7_Total ==
    \A c \in Callers :
        /\ [](pc[c] = "done" => IsHexString(result[c]))
        /\ (InCall(c) ~> pc[c] = "done")

\* a call with an empty server id and an empty public key has returned
C7_Witness ==
    \E c \in Callers :
        /\ pc[c] = "done" /\ call[c].fn = "server_hash"
        /\ call[c].server_id = <<>> /\ call[c].pub_key = <<>>
        /\ IsHexString(result[c])

(***************************************************************************)
(* server_auth and client_auth.                                            *)
(***************************************************************************)
IsPropertyObject(j) ==
    /\ j.t = "object"
    /\ \A k \in {"name", "value", "signature"} : k \in DOMAIN j.v /\ j.v[k].t = "string"

\* what the body gives for a field of ServerAuthResponse (a JSON object by
\* the field's name, a JSON array by its position), if it gives it
FieldPosition(k) == CASE k = "id" -> 1 [] k = "name" -> 2 [] k = "properties" -> 3
HasField(text, k) ==
    IF text.t = "object" THEN k \in DOMAIN text.v ELSE FieldPosition(k) <= Len(text.v)
Field(text, k) == IF text.t = "object" THEN text.v[k] ELSE text.v[FieldPosition(k)]

\* the text is JSON that has what ServerAuthResponse needs
DecodesAsResponse(text) ==
    /\ text.t = "object" \/ (text.t = "array" /\ Len(text.v) <= 3)
    /\ HasField(text, "id") /\ Field(text, "id").t = "string"
    /\ \E u \in Uuids : Field(text, "id").v \in {UuidSimple(u), UuidHyphenated(u)}
    /\ HasField(text, "name") /\ Field(text, "name").t = "string"
    /\ HasField(text, "properties") =>
         /\ Field(text, "properties").t = "array"
         /\ \A i \in 1..Len(Field(text, "properties").v) :
              IsPropertyObject(Field(text, "properties").v[i])

\* C8: server_auth returns Err(Http) when the send or the reading of the body
\* fails, Err(Json) when the body was read and is no ServerAuthResponse, and
\* otherwise Ok with the id, name and properties of the body (no properties
\* field: the empty vector); it returns no other error.
C8_ServerAuthOutcomes ==
    (apc = "done" /\ acall.fn = "server_auth") =>
        LET completed == exchange.sent /\ exchange.read
        IN  /\ ~aresult.ok => aresult.error \in {"Http", "Json"}
            /\ (~aresult.ok /\ aresult.error = "Http") <=> ~completed
            /\ (~aresult.ok /\ aresult.error = "Json")
                   <=> (completed /\ ~DecodesAsResponse(string))
            /\ aresult.ok <=> (completed /\ DecodesAsResponse(string))
            /\ aresult.ok =>
                 /\ Field(string, "id").v \in {UuidSimple(aresult.value.id),
                                               UuidHyphenated(aresult.value.id)}
                 /\ aresult.value.name = Field(string, "name").v
                 /\ IF HasField(string, "properties")
                    THEN LET ps == Field(string, "properties").v
                         IN  /\ Len(aresult.value.properties) = Len(ps)
                             /\ \A i \in 1..Len(ps) :
                                  \A k \in {"name", "value", "signature"} :
                                    aresult.value.properties[i][k] = ps[i].v[k].v
                    ELSE aresult.value.properties = <<>>

\* a body without a properties field was decoded
C8_Witness ==
    /\ apc = "done" /\ acall.fn = "server_auth"
    /\ aresult.ok /\ string.t = "object" /\ "properties" \notin DOMAIN string.v
    /\ aresult.value.properties = <<>>

\* C10: client_auth sends one POST whose body carries its three arguments, and
\* returns Ok(()) whenever the send completes, whatever the status, and
\* Err(Http) only when the send fails.
C10_ClientAuthOutcomes ==
    (apc = "done" /\ acall.fn = "client_auth") =>
        /\ Len(net) = 1
        /\ net[1].method = "POST"
        /\ net[1].body.accessToken = acall.access_token
        /\ ParseUuid(net[1].body.selectedProfile) = acall.uuid
        /\ net[1].body.serverId = acall.server_hash
        /\ aresult.ok <=> exchange.sent
        /\ ~aresult.ok => aresult.error = "Http"

\* the session server answered 403 and client_auth returned Ok(())
C10_Witness ==
    /\ apc = "done" /\ acall.fn = "client_auth"
    /\ exchange.sent /\ exchange.status = 403
    /\ aresult.ok
====
